---- MODULE Spec2Model ----
(***************************************************************************)
(* A model of src/src/core.ts: base atoms (createAtom), one derived atom   *)
(* (createDerivedAtom) over them, one async atom (createAsyncAtom), the    *)
(* host's microtask queue, and the callers' listeners.                     *)
(***************************************************************************)
EXTENDS Integers, Sequences, FiniteSets, TLC

\* ------------------------------------------------------------------ bounds
\* Numbers a caller writes into a base atom are 0..MaxNum.
MaxNum == 2
\* Distinct object references a caller holds.
MaxObj == 1
\* Registrations of one callback on one atom that are live at a time.
MaxRegs == 2

\* ------------------------------------------------------------------ values
Num(n) == [t |-> "num", v |-> n]
NegZero == [t |-> "negzero", v |-> 0]
NaN == [t |-> "nan", v |-> 0]
Obj(i) == [t |-> "obj", v |-> i]
Undefined == [t |-> "undef", v |-> 0]
Err(i) == [t |-> "err", v |-> i]
ThePromise == [t |-> "promise", v |-> 0]
Unsupported == [t |-> "unsupported", v |-> 0]

IsNumber(a) == a.t \in {"num", "negzero", "nan"}

\* JavaScript's === on the modelled values: NaN equals nothing, +0 equals -0,
\* references by identity.
StrictEq(a, b) ==
  IF IsNumber(a) /\ IsNumber(b)
    THEN a.t # "nan" /\ b.t # "nan" /\ a.v = b.v
    ELSE a = b

\* An identity test written with ===: it misses NaN and merges the zeros.
ObjectIsByStrictEq(a, b) == StrictEq(a, b)

\* Object.is (SameValue): NaN is NaN, +0 is not -0, otherwise as ===.
ObjectIs(a, b) ==
  IF IsNumber(a) /\ IsNumber(b)
    THEN IF a.t = "nan" \/ b.t = "nan"
           THEN a.t = b.t
           ELSE a.t = b.t /\ a.v = b.v
    ELSE StrictEq(a, b)

\* ------------------------------------------------------------------ atoms
Base == {"a", "b"}
DerivedAtom == "d"
AsyncAtom == "p"

\* The values callers write.
Numbers == {Num(n) : n \in 0..MaxNum}
Objects == {Obj(i) : i \in 1..MaxObj}
SetValues == Numbers \cup Objects \cup {NaN, NegZero}

\* Listeners of the callers: r (and s) only record the value they are given,
\* w writes WriteVal into WriteAtom when it is invoked, t raises a fault.
\* dl is the listener the derived atom installs on its dependencies.
Callbacks == {"r", "w", "t"}
DepListener == "dl"
WriteAtom == "a"
WriteVal == Num(0)

\* A Set in insertion order: add keeps an element's place, delete removes it.
SetAdd(s, e) == IF \E i \in 1..Len(s) : s[i] = e THEN s ELSE Append(s, e)
SetDelete(s, e) == SelectSeq(s, LAMBDA x : x # e)
Members(s) == {s[i] : i \in 1..Len(s)}

Task(kind, atom, v) == [kind |-> kind, atom |-> atom, v |-> v]

\* What an unsubscribe function closes over: the atom and the callback.
Handles == (Base \cup {DerivedAtom, AsyncAtom}) \X {"r", "s", "w", "t"}

VARIABLES
  curValue,               \* base atom -> its value
  subscribers,            \* base atom -> its listeners, in insertion order
  isBatching,             \* base atom -> a flush is armed
  currentValue,           \* the derived atom's cached value
  dIsBatching,            \* a recomputation of the derived atom is armed
  dSubscribers,           \* the derived atom's listeners, in insertion order
  dependencies,           \* the atoms the derived atom depends on
  dependencySubscribers,  \* the atoms that carry the derived atom's listener
  status,                 \* the async atom's status
  result,                 \* the async atom's result
  error,                  \* the async atom's error
  aSubscribers,           \* the async atom's listeners, in insertion order
  aIsBatching,            \* the async atom's flush is armed
  promise,                \* the promise given to createAsyncAtom
  queue,                  \* the host's microtask queue
  unsubs,                 \* <<atom, cb>> -> the unsubscribe functions held and never called
  usedUnsubs,             \* <<atom, cb>> of the held unsubscribe functions already called
  calls,                  \* the listener invocations of the last step: <<atom, cb, v>>
  fault,                  \* the last step ended by a fault escaping a listener
  ret                     \* the outcome of the last call of get/set

progVars == <<curValue, subscribers, isBatching, currentValue, dIsBatching,
              dSubscribers, dependencies, dependencySubscribers,
              status, result, error, aSubscribers, aIsBatching, queue>>
vars == <<progVars, promise, unsubs, usedUnsubs, calls, fault, ret>>

World == [curValue |-> curValue, subscribers |-> subscribers,
          isBatching |-> isBatching, currentValue |-> currentValue,
          dIsBatching |-> dIsBatching, dSubscribers |-> dSubscribers,
          dependencies |-> dependencies,
          dependencySubscribers |-> dependencySubscribers,
          status |-> status, result |-> result, error |-> error,
          aSubscribers |-> aSubscribers, aIsBatching |-> aIsBatching,
          queue |-> queue, calls |-> <<>>, fault |-> FALSE]

Commit(w) ==
  /\ curValue' = w.curValue
  /\ subscribers' = w.subscribers
  /\ isBatching' = w.isBatching
  /\ currentValue' = w.currentValue
  /\ dIsBatching' = w.dIsBatching
  /\ dSubscribers' = w.dSubscribers
  /\ dependencies' = w.dependencies
  /\ dependencySubscribers' = w.dependencySubscribers
  /\ status' = w.status
  /\ result' = w.result
  /\ error' = w.error
  /\ aSubscribers' = w.aSubscribers
  /\ aIsBatching' = w.aIsBatching
  /\ queue' = w.queue
  /\ calls' = w.calls
  /\ fault' = w.fault

\* The outcome of a call op(atom, arg): it returned v or it threw v.
NoRet == [op |-> "none", atom |-> "none", arg |-> Undefined, kind |-> "none",
          v |-> Undefined]
Returned(op, atom, arg, v) ==
  [op |-> op, atom |-> atom, arg |-> arg, kind |-> "return", v |-> v]
Thrown(op, atom, arg, v) ==
  [op |-> op, atom |-> atom, arg |-> arg, kind |-> "throw", v |-> v]

\* ------------------------------------------------------------- createAtom
scheduleUpdate(w, x) ==
  IF ~w.isBatching[x]
    THEN [w EXCEPT !.isBatching[x] = TRUE,
                   !.queue = Append(@, Task("base", x, Undefined))]
    ELSE w

\* A _setValue that hands the new value to the listeners before it returns.
SetValueNotifiesNow(w, x, value) ==
  IF ObjectIs(w.curValue[x], value)
    THEN w
    ELSE [w EXCEPT !.curValue[x] = value,
                   !.calls = [i \in 1..Len(w.subscribers[x]) |->
                                <<x, w.subscribers[x][i], value>>]]

SetValue(w, x, value) ==
  IF ObjectIs(w.curValue[x], value)
    THEN w
    ELSE scheduleUpdate([w EXCEPT !.curValue[x] = value], x)

\* ------------------------------------------- createDerivedAtom, scheduling
\* A scheduleUpdate without the isBatching guard.
derivedScheduleUpdateUnguarded(w) ==
  [w EXCEPT !.dIsBatching = TRUE,
            !.queue = Append(@, Task("derived", DerivedAtom, Undefined))]

derivedScheduleUpdate(w) ==
  IF w.dIsBatching
    THEN w
    ELSE [w EXCEPT !.dIsBatching = TRUE,
                   !.queue = Append(@, Task("derived", DerivedAtom, Undefined))]

\* The listener setupDependenciesSubscribe installs on a dependency.
DependencyListener(w) ==
  IF Len(w.dSubscribers) > 0 THEN derivedScheduleUpdate(w) ELSE w

\* ---------------------------------------------------------------- listeners
\* One listener's body.
Invoke(w, atom, cb, v) ==
  IF cb = DepListener
    THEN DependencyListener(w)
    ELSE LET called == [w EXCEPT !.calls = Append(@, <<atom, cb, v>>)] IN
         CASE cb = "w" -> SetValue(called, WriteAtom, WriteVal)
           [] cb = "t" -> [called EXCEPT !.fault = TRUE]
           [] OTHER -> called

\* subscribers.forEach((callback) => callback(curValue)) from position i on
RECURSIVE BaseForEach(_, _, _)
BaseForEach(w, x, i) ==
  IF i > Len(w.subscribers[x])
    THEN w
    ELSE LET after == Invoke(w, x, w.subscribers[x][i], w.curValue[x]) IN
         IF after.fault THEN after ELSE BaseForEach(after, x, i + 1)

\* The microtask createAtom's scheduleUpdate queued.
BaseFlush(w, x) ==
  LET after == BaseForEach(w, x, 1) IN
  IF after.fault THEN after ELSE [after EXCEPT !.isBatching[x] = FALSE]

\* ------------------------------------------------------ createDerivedAtom
\* The compute function given to createDerivedAtom:
\*   (get) => get(a) === 1 ? get(b) : get(a)
\* with the atoms it read through the accessor.
callback(cur) ==
  IF StrictEq(cur["a"], Num(1))
    THEN [value |-> cur["b"], tracked |-> {"a", "b"}]
    ELSE [value |-> cur["a"], tracked |-> {"a"}]

isDependenciesEqual(adeps, bdeps) ==
  /\ Cardinality(adeps) = Cardinality(bdeps)
  /\ \A atom \in adeps : atom \in bdeps

\* The unsubscribe function dependencySubscribers holds for an atom removes
\* the closure installed last on it; the closures are all written dl.
DeleteLatest(s, e) ==
  LET at == {i \in 1..Len(s) : s[i] = e} IN
  IF at = {}
    THEN s
    ELSE LET k == CHOOSE i \in at : \A j \in at : j <= i IN
         SubSeq(s, 1, k - 1) \o SubSeq(s, k + 1, Len(s))

\* A teardown that forgets the sets and leaves the listeners installed.
clearAllDependenciesKeepsListeners(w) ==
  [w EXCEPT !.dependencySubscribers = {}, !.dependencies = {}]

clearAllDependencies(w) ==
  [w EXCEPT !.subscribers = [x \in Base |->
                               IF x \in w.dependencySubscribers
                                 THEN DeleteLatest(w.subscribers[x], DepListener)
                                 ELSE w.subscribers[x]],
            !.dependencySubscribers = {},
            !.dependencies = {}]

\* Every listener installed is a new closure, so subscribers.add appends it.
setupDependenciesSubscribe(w, newDependencies) ==
  [w EXCEPT !.subscribers = [x \in Base |->
                               IF x \in newDependencies
                                 THEN Append(w.subscribers[x], DepListener)
                                 ELSE w.subscribers[x]],
            !.dependencySubscribers = @ \cup newDependencies]

\* An update that installs the new listeners without the teardown.
updateDependenciesWithoutClear(w, newDependencies) ==
  IF ~isDependenciesEqual(w.dependencies, newDependencies)
    THEN setupDependenciesSubscribe(
           [w EXCEPT !.dependencies = newDependencies], newDependencies)
    ELSE w

updateDependenciesIfChanged(w, newDependencies) ==
  IF ~isDependenciesEqual(w.dependencies, newDependencies)
    THEN LET cleared == clearAllDependencies(w) IN
         setupDependenciesSubscribe(
           [cleared EXCEPT !.dependencies = newDependencies], newDependencies)
    ELSE w

calculateDerivedValue(w) ==
  LET run == callback(w.curValue) IN
  updateDependenciesIfChanged([w EXCEPT !.currentValue = run.value], run.tracked)

\* subscribers.forEach((callback) => callback(currentValue)) from position i on
RECURSIVE DerivedForEach(_, _)
DerivedForEach(w, i) ==
  IF i > Len(w.dSubscribers)
    THEN w
    ELSE LET after == Invoke(w, DerivedAtom, w.dSubscribers[i], w.currentValue) IN
         IF after.fault THEN after ELSE DerivedForEach(after, i + 1)

\* A recomputation that hands every result to the subscribers.
DerivedFlushAlwaysNotifies(w) ==
  DerivedForEach(calculateDerivedValue([w EXCEPT !.dIsBatching = FALSE]), 1)

\* The microtask createDerivedAtom's scheduleUpdate queued: newValue is what
\* calculateDerivedValue returned, and currentValue is read after it ran.
DerivedFlush(w) ==
  LET armed == [w EXCEPT !.dIsBatching = FALSE]
      newValue == callback(armed.curValue).value
      after == calculateDerivedValue(armed)
      valueHasChanged == ~ObjectIs(newValue, after.currentValue)
  IN IF valueHasChanged THEN DerivedForEach(after, 1) ELSE after

\* A _getValue that reuses the cached value when there is one.
DerivedGetValueCached(w) ==
  IF w.currentValue # Undefined
    THEN [w |-> w, ret |-> Returned("get", DerivedAtom, Undefined, w.currentValue)]
    ELSE LET after == calculateDerivedValue(w) IN
         [w |-> after,
          ret |-> Returned("get", DerivedAtom, Undefined, after.currentValue)]

\* The derived atom's _getValue: the world it leaves and its outcome.
DerivedGetValue(w) ==
  LET after == calculateDerivedValue(w) IN
  [w |-> after, ret |-> Returned("get", DerivedAtom, Undefined, after.currentValue)]

\* A _setValue that stores the value in the cache instead of refusing.
DerivedSetValueStores(w, value) ==
  [w |-> [w EXCEPT !.currentValue = value],
   ret |-> Returned("set", DerivedAtom, value, Undefined)]

\* The derived atom's _setValue: the world it leaves and its outcome.
DerivedSetValue(w, value) ==
  [w |-> w, ret |-> Thrown("set", DerivedAtom, value, Unsupported)]

DerivedSubscribe(w, cb) ==
  LET first == IF Len(w.dSubscribers) = 0 THEN calculateDerivedValue(w) ELSE w IN
  [first EXCEPT !.dSubscribers = SetAdd(@, cb)]

\* An unsubscribe function that removes the callback and nothing else.
DerivedUnsubscribeOnlyRemoves(w, cb) ==
  [w EXCEPT !.dSubscribers = SetDelete(@, cb)]

\* The function DerivedSubscribe returned.
DerivedUnsubscribe(w, cb) ==
  LET removed == [w EXCEPT !.dSubscribers = SetDelete(@, cb)] IN
  IF Len(removed.dSubscribers) = 0
    THEN [clearAllDependencies(removed) EXCEPT !.currentValue = Undefined]
    ELSE removed

\* -------------------------------------------------------- createAsyncAtom
\* subscribers.forEach((callback) => callback(value)) from position i on
RECURSIVE AsyncForEach(_, _, _)
AsyncForEach(w, value, i) ==
  IF i > Len(w.aSubscribers)
    THEN w
    ELSE LET after == Invoke(w, AsyncAtom, w.aSubscribers[i], value) IN
         IF after.fault THEN after ELSE AsyncForEach(after, value, i + 1)

\* The microtask createAsyncAtom's scheduleUpdate queued.
AsyncFlush(w, value) ==
  LET after == AsyncForEach(w, value, 1) IN
  IF after.fault THEN after ELSE [after EXCEPT !.aIsBatching = FALSE]

asyncScheduleUpdate(w, value) ==
  IF ~w.aIsBatching
    THEN [w EXCEPT !.aIsBatching = TRUE,
                   !.queue = Append(@, Task("async", AsyncAtom, value))]
    ELSE w

\* A fulfilment handler that stores the result and forgets the status.
OnFulfilledKeepsPending(w, value) ==
  asyncScheduleUpdate([w EXCEPT !.result = value], value)

\* promise.then((value) => ...)
OnFulfilled(w, value) ==
  asyncScheduleUpdate([w EXCEPT !.status = "fulfilled", !.result = value], value)

\* The promise then() returned rejects with the same reason, which queues the
\* reaction catch() registered on it.
PassRejection(w, err) == [w EXCEPT !.queue = Append(@, Task("catch", AsyncAtom, err))]

\* .catch((err) => ...)
OnRejected(w, err) == [w EXCEPT !.error = err, !.status = "rejected"]

\* get that hands out the (absent) result while the promise is pending.
AsyncGetValueNoSuspend(w) ==
  IF w.status = "rejected"
    THEN Thrown("get", AsyncAtom, Undefined, w.error)
    ELSE Returned("get", AsyncAtom, Undefined, w.result)

AsyncGetValue(w) ==
  IF w.status = "rejected"
    THEN Thrown("get", AsyncAtom, Undefined, w.error)
    ELSE IF w.status = "fulfilled"
           THEN Returned("get", AsyncAtom, Undefined, w.result)
           ELSE Thrown("get", AsyncAtom, Undefined, ThePromise)

\* The async atom's _setValue: the world it leaves and its outcome.
AsyncSetValue(w, value) ==
  [w |-> w, ret |-> Thrown("set", AsyncAtom, value, Unsupported)]

\* ---------------------------------------------------------------- actions
Init ==
  /\ status = "pending"
  /\ result = Undefined
  /\ error = Undefined
  /\ aSubscribers = <<>>
  /\ aIsBatching = FALSE
  /\ promise = [state |-> "pending", v |-> Undefined]
  /\ curValue \in [Base -> {Num(0), Num(1), NaN}]
  /\ subscribers = [x \in Base |-> <<>>]
  /\ isBatching = [x \in Base |-> FALSE]
  /\ currentValue = Undefined
  /\ dIsBatching = FALSE
  /\ dSubscribers = <<>>
  /\ dependencies = {}
  /\ dependencySubscribers = {}
  /\ queue = <<>>
  /\ unsubs = [h \in Handles |-> 0]
  /\ usedUnsubs = {}
  /\ calls = <<>>
  /\ fault = FALSE
  /\ ret = NoRet

\* set(atom, value) on a base atom
Set(x, value) ==
  /\ Commit(SetValue(World, x, value))
  /\ ret' = Returned("set", x, value, Undefined)
  /\ UNCHANGED <<unsubs, usedUnsubs, promise>>

\* get(atom) on a base atom
Get(x) ==
  /\ Commit(World)
  /\ ret' = Returned("get", x, Undefined, curValue[x])
  /\ UNCHANGED <<unsubs, usedUnsubs, promise>>

\* subscribe(atom, cb) on a base atom
Subscribe(x, cb) ==
  /\ unsubs[<<x, cb>>] < MaxRegs
  /\ Commit([World EXCEPT !.subscribers[x] = SetAdd(@, cb)])
  /\ unsubs' = [unsubs EXCEPT ![<<x, cb>>] = @ + 1]
  /\ ret' = NoRet
  /\ UNCHANGED <<usedUnsubs, promise>>

\* a call of a function subscribe returned for a base atom
Unsubscribe(x, cb) ==
  /\ unsubs[<<x, cb>>] > 0
  /\ Commit([World EXCEPT !.subscribers[x] = SetDelete(@, cb)])
  /\ unsubs' = [unsubs EXCEPT ![<<x, cb>>] = @ - 1]
  /\ usedUnsubs' = usedUnsubs \cup {<<x, cb>>}
  /\ ret' = NoRet
  /\ UNCHANGED promise

\* a second or later call of a function subscribe returned for a base atom
UnsubscribeAgain(x, cb) ==
  /\ <<x, cb>> \in usedUnsubs
  /\ Commit([World EXCEPT !.subscribers[x] = SetDelete(@, cb)])
  /\ ret' = NoRet
  /\ UNCHANGED <<unsubs, usedUnsubs, promise>>

RunBaseFlush ==
  /\ queue # <<>>
  /\ Head(queue).kind = "base"
  /\ Commit(BaseFlush([World EXCEPT !.queue = Tail(@)], Head(queue).atom))
  /\ ret' = NoRet
  /\ UNCHANGED <<unsubs, usedUnsubs, promise>>

\* get(d)
GetDerived ==
  /\ Commit(DerivedGetValue(World).w)
  /\ ret' = DerivedGetValue(World).ret
  /\ UNCHANGED <<unsubs, usedUnsubs, promise>>

\* set(d, value)
SetDerived(value) ==
  /\ Commit(DerivedSetValue(World, value).w)
  /\ ret' = DerivedSetValue(World, value).ret
  /\ UNCHANGED <<unsubs, usedUnsubs, promise>>

\* subscribe(d, cb)
SubscribeDerived(cb) ==
  /\ unsubs[<<DerivedAtom, cb>>] < MaxRegs
  /\ Commit(DerivedSubscribe(World, cb))
  /\ unsubs' = [unsubs EXCEPT ![<<DerivedAtom, cb>>] = @ + 1]
  /\ ret' = NoRet
  /\ UNCHANGED <<usedUnsubs, promise>>

\* a call of a function subscribe(d, cb) returned
UnsubscribeDerived(cb) ==
  /\ unsubs[<<DerivedAtom, cb>>] > 0
  /\ Commit(DerivedUnsubscribe(World, cb))
  /\ unsubs' = [unsubs EXCEPT ![<<DerivedAtom, cb>>] = @ - 1]
  /\ usedUnsubs' = usedUnsubs \cup {<<DerivedAtom, cb>>}
  /\ ret' = NoRet
  /\ UNCHANGED promise

\* a second or later call of a function subscribe(d, cb) returned
UnsubscribeDerivedAgain(cb) ==
  /\ <<DerivedAtom, cb>> \in usedUnsubs
  /\ Commit(DerivedUnsubscribe(World, cb))
  /\ ret' = NoRet
  /\ UNCHANGED <<unsubs, usedUnsubs, promise>>

RunDerivedFlush ==
  /\ queue # <<>>
  /\ Head(queue).kind = "derived"
  /\ Commit(DerivedFlush([World EXCEPT !.queue = Tail(@)]))
  /\ ret' = NoRet
  /\ UNCHANGED <<unsubs, usedUnsubs, promise>>

\* The promise given to createAsyncAtom is fulfilled: its then() reaction is
\* queued.
Resolve(value) ==
  /\ promise.state = "pending"
  /\ promise' = [state |-> "fulfilled", v |-> value]
  /\ Commit([World EXCEPT !.queue = Append(@, Task("then", AsyncAtom, value))])
  /\ ret' = NoRet
  /\ UNCHANGED <<unsubs, usedUnsubs>>

\* The promise is rejected: then() has no rejection handler, so its reaction
\* only passes the reason on.
Reject(err) ==
  /\ promise.state = "pending"
  /\ promise' = [state |-> "rejected", v |-> err]
  /\ Commit([World EXCEPT !.queue = Append(@, Task("pass", AsyncAtom, err))])
  /\ ret' = NoRet
  /\ UNCHANGED <<unsubs, usedUnsubs>>

RunThen ==
  /\ queue # <<>>
  /\ Head(queue).kind = "then"
  /\ Commit(OnFulfilled([World EXCEPT !.queue = Tail(@)], Head(queue).v))
  /\ ret' = NoRet
  /\ UNCHANGED <<unsubs, usedUnsubs, promise>>

RunPass ==
  /\ queue # <<>>
  /\ Head(queue).kind = "pass"
  /\ Commit(PassRejection([World EXCEPT !.queue = Tail(@)], Head(queue).v))
  /\ ret' = NoRet
  /\ UNCHANGED <<unsubs, usedUnsubs, promise>>

RunCatch ==
  /\ queue # <<>>
  /\ Head(queue).kind = "catch"
  /\ Commit(OnRejected([World EXCEPT !.queue = Tail(@)], Head(queue).v))
  /\ ret' = NoRet
  /\ UNCHANGED <<unsubs, usedUnsubs, promise>>

RunAsyncFlush ==
  /\ queue # <<>>
  /\ Head(queue).kind = "async"
  /\ Commit(AsyncFlush([World EXCEPT !.queue = Tail(@)], Head(queue).v))
  /\ ret' = NoRet
  /\ UNCHANGED <<unsubs, usedUnsubs, promise>>

\* get(p)
GetAsync ==
  /\ Commit(World)
  /\ ret' = AsyncGetValue(World)
  /\ UNCHANGED <<unsubs, usedUnsubs, promise>>

\* set(p, value)
SetAsync(value) ==
  /\ Commit(AsyncSetValue(World, value).w)
  /\ ret' = AsyncSetValue(World, value).ret
  /\ UNCHANGED <<unsubs, usedUnsubs, promise>>

\* subscribe(p, cb)
SubscribeAsync(cb) ==
  /\ unsubs[<<AsyncAtom, cb>>] < MaxRegs
  /\ Commit([World EXCEPT !.aSubscribers = SetAdd(@, cb)])
  /\ unsubs' = [unsubs EXCEPT ![<<AsyncAtom, cb>>] = @ + 1]
  /\ ret' = NoRet
  /\ UNCHANGED <<usedUnsubs, promise>>

\* a call of a function subscribe(p, cb) returned
UnsubscribeAsync(cb) ==
  /\ unsubs[<<AsyncAtom, cb>>] > 0
  /\ Commit([World EXCEPT !.aSubscribers = SetDelete(@, cb)])
  /\ unsubs' = [unsubs EXCEPT ![<<AsyncAtom, cb>>] = @ - 1]
  /\ usedUnsubs' = usedUnsubs \cup {<<AsyncAtom, cb>>}
  /\ ret' = NoRet
  /\ UNCHANGED promise

\* a second or later call of a function subscribe(p, cb) returned
UnsubscribeAsyncAgain(cb) ==
  /\ <<AsyncAtom, cb>> \in usedUnsubs
  /\ Commit([World EXCEPT !.aSubscribers = SetDelete(@, cb)])
  /\ ret' = NoRet
  /\ UNCHANGED <<unsubs, usedUnsubs, promise>>

\* Callers' listeners on the base atoms: any of them on WriteAtom, each
\* registered once at a time.
Next ==
  \/ \E x \in Base, v \in SetValues : Set(x, v)
  \/ \E x \in Base : Get(x)
  \/ \E cb \in Callbacks : unsubs[<<WriteAtom, cb>>] = 0 /\ Subscribe(WriteAtom, cb)
  \/ \E cb \in Callbacks : Unsubscribe(WriteAtom, cb)
  \/ \E cb \in Callbacks : UnsubscribeAgain(WriteAtom, cb)
  \/ RunBaseFlush

Spec == Init /\ [][Next]_vars

\* Two recording listeners on the derived atom.
DerivedCallbacks == {"r", "s"}

NextDerived ==
  \/ \E x \in Base, v \in Numbers : Set(x, v)
  \/ RunBaseFlush
  \/ GetDerived
  \/ \E v \in Numbers : SetDerived(v)
  \/ \E cb \in DerivedCallbacks :
       unsubs[<<DerivedAtom, cb>>] = 0 /\ SubscribeDerived(cb)
  \/ \E cb \in DerivedCallbacks : UnsubscribeDerived(cb)
  \/ \E cb \in DerivedCallbacks : UnsubscribeDerivedAgain(cb)
  \/ RunDerivedFlush

SpecDerived == Init /\ [][NextDerived]_vars

Reasons == {Err(i) : i \in 1..MaxObj}
AsyncCallbacks == {"r", "t"}

NextAsync ==
  \/ \E v \in Numbers : Resolve(v)
  \/ \E e \in Reasons : Reject(e)
  \/ RunThen
  \/ RunPass
  \/ RunCatch
  \/ RunAsyncFlush
  \/ GetAsync
  \/ \E v \in Numbers : SetAsync(v)
  \/ \E cb \in AsyncCallbacks :
       unsubs[<<AsyncAtom, cb>>] = 0 /\ SubscribeAsync(cb)
  \/ \E cb \in AsyncCallbacks : UnsubscribeAsync(cb)
  \/ \E cb \in AsyncCallbacks : UnsubscribeAsyncAgain(cb)

SpecAsync == Init /\ [][NextAsync]_vars

\* The read-only atoms together: the derived atom over a changing dependency,
\* and the async atom.
NextReadOnly ==
  \/ \E v \in Numbers : Set(WriteAtom, v)
  \/ RunBaseFlush
  \/ GetDerived
  \/ \E v \in Numbers : SetDerived(v)
  \/ unsubs[<<DerivedAtom, "r">>] = 0 /\ SubscribeDerived("r")
  \/ UnsubscribeDerived("r")
  \/ UnsubscribeDerivedAgain("r")
  \/ RunDerivedFlush
  \/ \E v \in Numbers : Resolve(v)
  \/ \E e \in Reasons : Reject(e)
  \/ RunThen
  \/ RunPass
  \/ RunCatch
  \/ RunAsyncFlush
  \/ \E v \in Numbers : SetAsync(v)
  \/ unsubs[<<AsyncAtom, "r">>] = 0 /\ SubscribeAsync("r")

SpecReadOnly == Init /\ [][NextReadOnly]_vars

\* Registrations on one base atom: two recording listeners, each registered
\* up to MaxRegs times at once, and every unsubscribe function called as often
\* as the caller likes.
NextSubscribers ==
  \/ \E v \in Numbers : Set(WriteAtom, v)
  \/ \E cb \in DerivedCallbacks : Subscribe(WriteAtom, cb)
  \/ \E cb \in DerivedCallbacks : Unsubscribe(WriteAtom, cb)
  \/ \E cb \in DerivedCallbacks : UnsubscribeAgain(WriteAtom, cb)
  \/ RunBaseFlush

SpecSubscribers == Init /\ [][NextSubscribers]_vars
\* =================================================================== claims
\* The identity the documentation describes: the same reference, both NaN,
\* or the same primitive (the sign of a zero counts).
Identical(a, b) ==
  \/ a.t = "obj" /\ b.t = "obj" /\ a.v = b.v
  \/ a.t = "nan" /\ b.t = "nan"
  \/ a.t = b.t /\ a.t \in {"num", "negzero"} /\ a.v = b.v

FlushesQueued(q, kind, x) ==
  Cardinality({i \in 1..Len(q) : q[i].kind = kind /\ q[i].atom = x})

\* This step runs the flush of base atom x.
IsBaseFlushOf(x) ==
  /\ queue # <<>>
  /\ Head(queue) = Task("base", x, Undefined)
  /\ RunBaseFlush

IsDerivedFlush ==
  /\ queue # <<>>
  /\ Head(queue).kind = "derived"
  /\ RunDerivedFlush

IsAsyncFlush ==
  /\ queue # <<>>
  /\ Head(queue).kind = "async"
  /\ RunAsyncFlush

\* The callers' listeners among a listener list.
UserListeners(s) == Members(s) \ {DepListener}

Invoked(c) == {c[i][2] : i \in 1..Len(c)}

\* The invocations c are one call of each listener of cbs, on atom x with v.
InvokedOnce(c, x, cbs, v) ==
  /\ Len(c) = Cardinality(cbs)
  /\ \A cb \in cbs : \E i \in 1..Len(c) : c[i] = <<x, cb, v>>

\* C1: every step that changes a base atom's value leaves exactly one flush
\* of that atom queued, and the flush invokes every registered listener exactly
\* once with the value the atom holds when the flush starts.
C1_CoalescedFlush ==
  [][\A x \in Base :
       /\ curValue'[x] # curValue[x] => FlushesQueued(queue', "base", x) = 1
       /\ IsBaseFlushOf(x) =>
            InvokedOnce(calls', x, UserListeners(subscribers[x]), curValue[x])
    ]_vars

C3_DerivedNotifiesChange ==
  [][(/\ IsDerivedFlush
      /\ Len(dSubscribers) > 0
      /\ ~Identical(callback(curValue).value, currentValue))
       => /\ currentValue' = callback(curValue).value
          /\ InvokedOnce(calls', DerivedAtom, UserListeners(dSubscribers),
                         callback(curValue).value)
    ]_vars

\* C4: when the listener w writes a different value into the atom whose flush
\* invokes it, no listener of that flush is given the written value, and the
\* step leaves a further flush of the atom armed and queued.
C4_ReentrantSetStartsNewWindow ==
  [][(/\ IsBaseFlushOf(WriteAtom)
      /\ "w" \in Invoked(calls')
      /\ ~Identical(curValue[WriteAtom], WriteVal))
       => /\ \A i \in 1..Len(calls') : calls'[i][3] = curValue[WriteAtom]
          /\ isBatching'[WriteAtom]
          /\ FlushesQueued(queue', "base", WriteAtom) = 1
    ]_vars

\* C5: the listeners a base atom's flush invokes are exactly the listeners
\* registered when the flush runs.
C5_MembershipAtFlushTime ==
  [][\A x \in Base :
       IsBaseFlushOf(x) => Invoked(calls') = UserListeners(subscribers[x])
    ]_vars
\* C6: get on the async atom is decided by the status alone: pending throws
\* the promise, fulfilled returns the value the promise resolved with, rejected
\* throws the reason the promise rejected with; and get changes nothing.
C6_AsyncGetFollowsStatus ==
  [][(ret'.op = "get" /\ ret'.atom = AsyncAtom)
       => /\ status = "pending" =>
               ret' = Thrown("get", AsyncAtom, Undefined, ThePromise)
          /\ status = "fulfilled" =>
               ret' = Returned("get", AsyncAtom, Undefined, promise.v)
          /\ status = "rejected" =>
               ret' = Thrown("get", AsyncAtom, Undefined, promise.v)
          /\ UNCHANGED <<progVars, promise>>
          /\ calls' = <<>>
    ]_vars

\* get has just thrown the rejection reason of a rejected async atom.
C6_Witness ==
  /\ status = "rejected"
  /\ promise.state = "rejected"
  /\ ret = Thrown("get", AsyncAtom, Undefined, promise.v)

\* C7: the step that fulfils the async atom queues its one flush, no other
\* step queues one, the flush invokes each registered listener exactly once
\* with the resolved value, and no other step invokes a listener of the atom.
C7_AsyncNotifiesOnceOnFulfil ==
  [][/\ (status = "pending" /\ status' = "fulfilled")
          => /\ FlushesQueued(queue', "async", AsyncAtom) = 1
             /\ \A i \in 1..Len(queue') :
                  queue'[i].kind = "async" => queue'[i].v = promise.v
     /\ FlushesQueued(queue', "async", AsyncAtom)
          > FlushesQueued(queue, "async", AsyncAtom)
          => (status = "pending" /\ status' = "fulfilled")
     /\ IsAsyncFlush
          => /\ status = "fulfilled"
             /\ InvokedOnce(calls', AsyncAtom, UserListeners(aSubscribers),
                            promise.v)
     /\ ~IsAsyncFlush => \A i \in 1..Len(calls') : calls'[i][1] # AsyncAtom
    ]_vars

\* C8: the async atom's status starts pending, changes only from pending and
\* only to fulfilled or rejected, nothing of a settled atom changes, a result
\* is held only when fulfilled and an error only when rejected.
C8_StatusSettlesOnce ==
  /\ status = "pending"
  /\ [](result # Undefined => status = "fulfilled")
  /\ [](error # Undefined => status = "rejected")
  /\ [][status' # status
          => (status = "pending" /\ status' \in {"fulfilled", "rejected"})]_vars
  /\ [][status # "pending" => UNCHANGED <<status, result, error>>]_vars

\* The fulfilled async atom has flushed and has been read since.
C8_Witness ==
  /\ status = "fulfilled"
  /\ result = promise.v
  /\ queue = <<>>
  /\ ret.op = "get"

\* C9: set on the derived atom or on the async atom throws the
\* unsupported-mutation error and changes nothing of any atom or of the queue.
C9_ReadOnlyAtomsRefuseSet ==
  [][(ret'.op = "set" /\ ret'.atom \in {DerivedAtom, AsyncAtom})
       => /\ ret'.kind = "throw"
          /\ ret'.v = Unsupported
          /\ UNCHANGED <<progVars, promise>>
          /\ calls' = <<>>
    ]_vars

\* set on the derived atom has just thrown while the atom has a subscriber,
\* dependencies and an armed recomputation, and the async atom an armed flush.
C9_Witness ==
  /\ ret = Thrown("set", DerivedAtom, ret.arg, Unsupported)
  /\ Len(dSubscribers) > 0
  /\ dependencies # {}
  /\ dIsBatching
  /\ aIsBatching

\* C10: get on the derived atom returns the compute function's result on the
\* values the base atoms hold when it is called, and stores it.
C10_DerivedGetIsFresh ==
  [][(ret'.op = "get" /\ ret'.atom = DerivedAtom)
       => /\ ret' = Returned("get", DerivedAtom, Undefined,
                             callback(curValue).value)
          /\ currentValue' = callback(curValue).value
    ]_vars

\* get on the subscribed derived atom has just returned the fresh value while
\* a recomputation is still armed and the cache held another value.
C10_Witness ==
  /\ ret.op = "get"
  /\ ret.atom = DerivedAtom
  /\ Len(dSubscribers) > 0
  /\ dIsBatching
  /\ isBatching["a"]
  /\ ret.v = curValue["a"]
\* C11: when a base atom's flush runs while the derived atom has subscribers,
\* it arms and queues a recomputation if the atom was read in the derived
\* atom's most recent computation, and leaves the recomputation state alone
\* if it was not.
C11_OnlyTrackedAtomsRecompute ==
  [][\A x \in Base :
       (IsBaseFlushOf(x) /\ Len(dSubscribers) > 0)
         => IF x \in dependencies
              THEN /\ dIsBatching'
                   /\ FlushesQueued(queue', "derived", DerivedAtom) = 1
              ELSE /\ dIsBatching' = dIsBatching
                   /\ FlushesQueued(queue', "derived", DerivedAtom)
                        = FlushesQueued(queue, "derived", DerivedAtom)
                   /\ UNCHANGED <<currentValue, dependencies>>
    ]_vars

\* The flush of b is queued while the subscribed derived atom's last
\* computation took the branch that reads only a.
C11_Witness ==
  /\ Len(dSubscribers) > 0
  /\ dependencies = {"a"}
  /\ currentValue = curValue["a"]
  /\ isBatching["b"]
  /\ ~dIsBatching
  /\ queue = <<Task("base", "b", Undefined)>>

\* C12: when a callback is registered twice on a base atom (two unsubscribe
\* functions held, neither called, the callback in the listener set) and one
\* of the two is called, the callback is still in the listener set.
C12_DuplicateSurvivesOneUnsubscribe ==
  [][\A cb \in DerivedCallbacks :
       (/\ unsubs[<<WriteAtom, cb>>] = 2
        /\ <<WriteAtom, cb>> \notin usedUnsubs
        /\ cb \in Members(subscribers[WriteAtom])
        /\ Unsubscribe(WriteAtom, cb))
         => cb \in Members(subscribers'[WriteAtom])
    ]_vars

\* C13: a second or later call of an unsubscribe function leaves the
\* listener set of its atom unchanged, for a base atom and for the derived
\* atom, also when the callback was subscribed again in between.
C13_UnsubscribeIsIdempotent ==
  [][/\ \A cb \in DerivedCallbacks :
          UnsubscribeAgain(WriteAtom, cb)
            => subscribers'[WriteAtom] = subscribers[WriteAtom]
     /\ \A cb \in DerivedCallbacks :
          UnsubscribeDerivedAgain(cb) => dSubscribers' = dSubscribers
    ]_vars

\* C14: for a base atom, set(v) stores v and invokes no listener before it
\* returns; get returns the stored value and changes nothing; and the stored
\* value changes only in a set, made by a caller or by a listener during a
\* flush. So get returns the initial value before any set and v right after
\* set(v), before any flush has run.
C14_GetFollowsSet ==
  [][\A x \in Base :
       /\ (ret'.op = "set" /\ ret'.atom = x)
            => /\ curValue'[x] = ret'.arg
               /\ calls' = <<>>
               /\ ~fault'
       /\ (ret'.op = "get" /\ ret'.atom = x)
            => /\ ret'.kind = "return"
               /\ ret'.v = curValue[x]
               /\ curValue' = curValue
       /\ (ret.op = "set" /\ ret.atom = x /\ ret'.op = "get" /\ ret'.atom = x)
            => ret'.v = ret.arg
       /\ (ret'.op # "set" /\ ~(queue # <<>> /\ Head(queue).kind = "base"))
            => curValue'[x] = curValue[x]
    ]_vars

\* get(a) has just returned the value of a set whose flush is still queued,
\* with a listener registered that has not been invoked.
C14_Witness ==
  /\ ret.op = "get" /\ ret.atom = "a" /\ ret.kind = "return"
  /\ ret.v = Num(2)
  /\ curValue["a"] = Num(2)
  /\ isBatching["a"]
  /\ queue = <<Task("base", "a", Undefined)>>
  /\ "r" \in Members(subscribers["a"])
  /\ calls = <<>>

\* The internal listeners the derived atom has on base atom x.
InternalListeners(s, x) ==
  Cardinality({i \in 1..Len(s[x]) : s[x][i] = DepListener})

\* This step completes a computation of the derived atom: get(d), the first
\* subscribe, or the scheduled recomputation.
DerivedComputes ==
  \/ ret'.op = "get" /\ ret'.atom = DerivedAtom
  \/ \E cb \in DerivedCallbacks : Len(dSubscribers) = 0 /\ SubscribeDerived(cb)
  \/ IsDerivedFlush

\* C15: after every completed computation of the derived atom its dependency
\* set is the set of atoms the computation read, and the atom has one internal
\* listener on each of them and none on any other atom.
C15_DependenciesAreTheAtomsRead ==
  [][DerivedComputes
       => /\ dependencies' = callback(curValue).tracked
          /\ \A x \in Base :
               InternalListeners(subscribers', x)
                 = IF x \in dependencies' THEN 1 ELSE 0
    ]_vars

\* The last computation of the subscribed derived atom read a and b, nothing
\* is pending, and both atoms carry its listener.
C15_Witness ==
  /\ Len(dSubscribers) > 0
  /\ queue = <<>> /\ ~dIsBatching
  /\ curValue["a"] = Num(1) /\ curValue["b"] = Num(2)
  /\ currentValue = Num(2)
  /\ dependencies = {"a", "b"}
  /\ InternalListeners(subscribers, "a") = 1
  /\ InternalListeners(subscribers, "b") = 1

\* C16: at most one recomputation of the derived atom is queued at any time,
\* and one is queued exactly while the atom is armed; a dependency's flush
\* that notifies an armed atom adds none.
C16_OneRecomputationPending ==
  /\ FlushesQueued(queue, "derived", DerivedAtom) <= 1
  /\ dIsBatching <=> FlushesQueued(queue, "derived", DerivedAtom) = 1

\* Both dependencies were set: the flush of a has queued the recomputation,
\* and the flush of b, which will notify the derived atom again, is next.
C16_Witness ==
  /\ Len(dSubscribers) > 0
  /\ dependencies = {"a", "b"}
  /\ dIsBatching
  /\ isBatching["b"]
  /\ queue = <<Task("base", "b", Undefined),
               Task("derived", DerivedAtom, Undefined)>>

\* C17: a scheduled recomputation whose result is identical to the value the
\* derived atom held before it invokes none of the atom's subscribers.
C17_NoNotificationWithoutChange ==
  [][(IsDerivedFlush /\ Identical(callback(curValue).value, currentValue))
       => calls' = <<>>
    ]_vars

\* A recomputation is queued for the subscribed derived atom, and the value
\* it will compute is the one the atom holds.
C17_Witness ==
  /\ Len(dSubscribers) > 0
  /\ dIsBatching
  /\ queue = <<Task("derived", DerivedAtom, Undefined)>>
  /\ currentValue = Num(2)
  /\ callback(curValue).value = Num(2)

\* C18: while the derived atom has no subscriber, the flush of a base atom
\* neither arms nor queues a recomputation, and no queued recomputation of
\* the atom runs.
C18_UnobservedDoesNotRecompute ==
  [][Len(dSubscribers) = 0
       => /\ \A x \in Base :
               IsBaseFlushOf(x)
                 => /\ dIsBatching' = dIsBatching
                    /\ FlushesQueued(queue', "derived", DerivedAtom)
                         = FlushesQueued(queue, "derived", DerivedAtom)
          /\ ~IsDerivedFlush
    ]_vars

\* C19: an unsubscribe call that removes the derived atom's last subscriber
\* leaves no internal listener on any base atom, an empty dependency set and
\* no cached value; one that leaves a subscriber changes none of these.
C19_LastUnsubscribeTearsDown ==
  [][\A cb \in DerivedCallbacks :
       (/\ Len(dSubscribers) > 0
        /\ UnsubscribeDerived(cb) \/ UnsubscribeDerivedAgain(cb))
         => IF Len(dSubscribers') = 0
              THEN /\ \A x \in Base : InternalListeners(subscribers', x) = 0
                   /\ dependencies' = {}
                   /\ currentValue' = Undefined
              ELSE UNCHANGED <<subscribers, dependencies, dependencySubscribers,
                               currentValue>>
    ]_vars

\* The last subscriber of a derived atom that read a and b has unsubscribed.
C19_Witness ==
  /\ dSubscribers = <<>>
  /\ <<DerivedAtom, "r">> \in usedUnsubs
  /\ unsubs[<<DerivedAtom, "r">>] = 0 /\ unsubs[<<DerivedAtom, "s">>] = 0
  /\ curValue["a"] = Num(1)
  /\ dependencies = {}
  /\ currentValue = Undefined
  /\ \A x \in Base : InternalListeners(subscribers, x) = 0
  /\ queue = <<>>

\* C20: in every reachable state a derived atom without subscribers has no
\* internal listener on any base atom.
C20_NoListenersWhileUnobserved ==
  Len(dSubscribers) = 0
    => \A x \in Base : InternalListeners(subscribers, x) = 0

\* C21: when the flush of a base atom has run the atom is disarmed, also when
\* a listener raised a fault during the flush; and a set that changes the
\* atom's value leaves a flush of the atom queued.
C21_FlushDisarms ==
  [][\A x \in Base :
       /\ IsBaseFlushOf(x) => ~isBatching'[x]
       /\ (ret'.op = "set" /\ ret'.atom = x /\ ~ObjectIs(curValue[x], ret'.arg))
            => FlushesQueued(queue', "base", x) = 1
    ]_vars
====
